---- MODULE Spec2Model ----
(***************************************************************************)
(* Model of the biteAPI Lambda handler.  The repository holds two variants *)
(* of the same program, main.go and biteApi.go; `variant` selects which    *)
(* one an invocation runs.  One behaviour of Spec is one invocation of     *)
(* router: the inputs (method, body) are fixed in Init, the outcomes of    *)
(* the calls into the maps SDK are chosen in the actions.                  *)
(***************************************************************************)
EXTENDS Integers, Sequences, FiniteSets, TLC

VARIABLES variant, method, body, pc, parameters, client, r, calls, failed,
          photoData, flowResp, resp, outcome, priceIn, priceOut

vars == <<variant, method, body, pc, parameters, client, r, calls, failed,
          photoData, flowResp, resp, outcome, priceIn, priceOut>>

(* ------------------------------- bounds -------------------------------- *)
\* minPrice / maxPrice of the inbound body range over -PriceBelow..PriceHi
PriceBelow == 1
PriceHi == 5
\* the provider's photo payload has at most MaxPhotoLen bytes
MaxPhotoLen == 3
\* parsePriceLevel alone is applied to every integer of -PriceMag..PriceMag
PriceMag == 60

Variants == {"main", "biteApi"}
Methods == {"POST", "GET", "post"}
PhotoBytes == {0, 77, 255}

(* ------------------------- JSON values of a body ----------------------- *)
JAbsent == [t |-> "absent", n |-> 0, s |-> ""]
JNum(n) == [t |-> "num", n |-> n, s |-> ""]
JStr(s) == [t |-> "str", n |-> 0, s |-> s]

VerbVals == {JAbsent, JStr(""), JStr("create"), JStr("nextpage"),
             JStr("photo"), JStr("delete")}
\* coordinates are counted in units of 1e-7 degree
LongVals == {JAbsent, JStr("abc"), JNum(-1224194004)}
LatVals == {JAbsent, JStr("abc"), JNum(377749006)}
RadiusVals == {JAbsent, JNum(1000)}
PriceVals == {JAbsent} \cup {JNum(p) : p \in (0 - PriceBelow)..PriceHi}
TokenVals == {JAbsent, JStr(""), JStr("ABC123")}
RefVals == {JAbsent, JStr(""), JStr("ref1")}

ObjectBodies ==
    [kind : {"object"}, verb : VerbVals, long : LongVals, lat : LatVals,
     radius : RadiusVals, minPrice : PriceVals, maxPrice : PriceVals,
     pageToken : TokenVals, photoRef : RefVals]

NonObjectBody(k) ==
    [kind |-> k, verb |-> JAbsent, long |-> JAbsent, lat |-> JAbsent,
     radius |-> JAbsent, minPrice |-> JAbsent, maxPrice |-> JAbsent,
     pageToken |-> JAbsent, photoRef |-> JAbsent]

\* the empty body and a body that is not valid JSON
Bodies == {NonObjectBody("empty"), NonObjectBody("malformed")} \cup ObjectBodies

(* ------------------------------ BiteBody ------------------------------- *)
BiteBody ==
    [Verb |-> "", Long |-> 0, Lat |-> 0, Radius |-> 0, MinPrice |-> 0,
     MaxPrice |-> 0, PageToken |-> "", PhotoRef |-> ""]

\* encoding/json: a field keeps its zero value when the key is absent or
\* when its JSON value does not fit the Go type (the error is dropped)
StringField(v) == IF v.t = "str" THEN v.s ELSE ""
NumField(v) == IF v.t = "num" THEN v.n ELSE 0

\* json.Unmarshal([]byte(body), &parameters) with its error ignored:
\* input that is not valid JSON leaves parameters untouched
Unmarshal(b) ==
    IF b.kind # "object" THEN BiteBody
    ELSE [Verb |-> StringField(b.verb), Long |-> NumField(b.long),
          Lat |-> NumField(b.lat), Radius |-> NumField(b.radius),
          MinPrice |-> NumField(b.minPrice), MaxPrice |-> NumField(b.maxPrice),
          PageToken |-> StringField(b.pageToken),
          PhotoRef |-> StringField(b.photoRef)]

(* ------------------------------ responses ------------------------------ *)
StatusOK == 200
StatusBadRequest == 400
StatusMethodNotAllowed == 405
StatusInternalServerError == 500

\* http.StatusText
StatusText(status) ==
    CASE status = 200 -> "OK"
      [] status = 400 -> "Bad Request"
      [] status = 405 -> "Method Not Allowed"
      [] status = 500 -> "Internal Server Error"
      [] OTHER -> ""

\* maps.PlacesSearchResponse: the zero value an SDK call returns with an
\* error, and the pages the provider can answer with
ZeroSearchResponse == [Results |-> 0, NextPageToken |-> ""]
SearchResponses ==
    {[Results |-> 2, NextPageToken |-> "ABC123"],
     [Results |-> 1, NextPageToken |-> ""]}

TextBody(s) == [kind |-> "text", text |-> s, json |-> ZeroSearchResponse, b64 |-> <<>>]
\* string(json.Marshal(biteArray))
JsonBody(v) == [kind |-> "json", text |-> "", json |-> v, b64 |-> <<>>]
Base64Body(cs) == [kind |-> "base64", text |-> "", json |-> ZeroSearchResponse, b64 |-> cs]

\* the Headers map of events.APIGatewayProxyResponse
CorsHeaders ==
    {<<"Content-Type", "application/json">>, <<"Access-Control-Allow-Origin", "*">>}
Headers == IF variant = "main" THEN CorsHeaders ELSE {}

\* the zero events.APIGatewayProxyResponse
ZeroResponse ==
    [StatusCode |-> 0, Headers |-> {}, IsBase64Encoded |-> FALSE, Body |-> TextBody("")]

clientError(status) ==
    [StatusCode |-> status, Headers |-> Headers, IsBase64Encoded |-> FALSE,
     Body |-> TextBody(StatusText(status))]

clientSuccess(biteArray) ==
    [StatusCode |-> StatusOK, Headers |-> Headers, IsBase64Encoded |-> FALSE,
     Body |-> JsonBody(biteArray)]

(* --------------------------- price-level mapper ------------------------ *)
PriceLevelFree == "0"
PriceLevelInexpensive == "1"
PriceLevelModerate == "2"
PriceLevelExpensive == "3"
PriceLevelVeryExpensive == "4"

\* parsePriceLevel with its default arm sending the caller to the top tier
parsePriceLevelDefaultTop(priceLevel) ==
    CASE priceLevel = 0 -> PriceLevelFree
      [] priceLevel = 1 -> PriceLevelInexpensive
      [] priceLevel = 2 -> PriceLevelModerate
      [] priceLevel = 3 -> PriceLevelExpensive
      [] OTHER -> PriceLevelVeryExpensive

parsePriceLevel(priceLevel) ==
    CASE priceLevel = 0 -> PriceLevelFree
      [] priceLevel = 1 -> PriceLevelInexpensive
      [] priceLevel = 2 -> PriceLevelModerate
      [] priceLevel = 3 -> PriceLevelExpensive
      [] priceLevel = 4 -> PriceLevelVeryExpensive
      [] OTHER -> PriceLevelFree

\* the zero maps.NearbySearchRequest; Location is a pointer, NoLocation is nil
NoLocation == <<>>
NearbySearchRequest ==
    [Location |-> NoLocation, Radius |-> 0, Type |-> "", OpenNow |-> FALSE,
     MinPrice |-> "", MaxPrice |-> "", PageToken |-> ""]

parsePriceLevels(minPrice, maxPrice, req) ==
    LET r1 == IF minPrice > 0
              THEN [req EXCEPT !.MinPrice = parsePriceLevel(minPrice)]
              ELSE req
    IN  IF maxPrice < 5
        THEN [r1 EXCEPT !.MaxPrice = parsePriceLevel(minPrice)]
        ELSE r1

\* fmt.Sprintf("%f", x): six decimals, so a coordinate counted in 1e-7
\* degree is rounded to a multiple of 10, halves away from zero
FormatF(x) == IF x >= 0 THEN ((x + 5) \div 10) * 10 ELSE -(((-x + 5) \div 10) * 10)

\* parseLocation(fmt.Sprintf("%f,%f", lat, long), r): the formatted string is
\* never empty and always parses, so r.Location is always set
parseLocation(lat, long, req) ==
    [req EXCEPT !.Location = <<FormatF(lat), FormatF(long)>>]

(* ------------------------------- base64 -------------------------------- *)
\* the alphabet of base64.StdEncoding, with '=' as padding
encodeStd ==
    <<"A", "B", "C", "D", "E", "F", "G", "H", "I", "J", "K", "L", "M",
      "N", "O", "P", "Q", "R", "S", "T", "U", "V", "W", "X", "Y", "Z",
      "a", "b", "c", "d", "e", "f", "g", "h", "i", "j", "k", "l", "m",
      "n", "o", "p", "q", "r", "s", "t", "u", "v", "w", "x", "y", "z",
      "0", "1", "2", "3", "4", "5", "6", "7", "8", "9", "+", "/">>
StdPadding == "="

RECURSIVE EncodeToString(_)
\* base64.StdEncoding.EncodeToString: three bytes to four characters, a
\* trailing group of one or two bytes padded to four
EncodeToString(src) ==
    IF Len(src) = 0 THEN <<>>
    ELSE IF Len(src) = 1 THEN
        <<encodeStd[(src[1] \div 4) + 1], encodeStd[((src[1] % 4) * 16) + 1],
          StdPadding, StdPadding>>
    ELSE IF Len(src) = 2 THEN
        <<encodeStd[(src[1] \div 4) + 1],
          encodeStd[((src[1] % 4) * 16 + (src[2] \div 16)) + 1],
          encodeStd[((src[2] % 16) * 4) + 1], StdPadding>>
    ELSE
        <<encodeStd[(src[1] \div 4) + 1],
          encodeStd[((src[1] % 4) * 16 + (src[2] \div 16)) + 1],
          encodeStd[((src[2] % 16) * 4 + (src[3] \div 64)) + 1],
          encodeStd[(src[3] % 64) + 1]>>
        \o EncodeToString(SubSeq(src, 4, Len(src)))

\* the byte sequences the provider can answer a photo fetch with
PhotoPayloads == UNION {[1..n -> PhotoBytes] : n \in 0..MaxPhotoLen}

\* png.Encode of the decoded image: a fresh PNG stream, which opens with the
\* PNG signature whatever the provider's bytes were
PngSignature == <<137, 80, 78, 71, 13, 10, 26, 10>>
pngEncode(data) == PngSignature \o data

\* maps.PlacePhotoRequest as respondPhoto fills it
PlacePhotoRequest(photoref) ==
    IF variant = "main"
    THEN [PhotoReference |-> photoref, MaxHeight |-> 6000, MaxWidth |-> 6000]
    ELSE [PhotoReference |-> photoref, MaxHeight |-> 0, MaxWidth |-> 0]

\* the response handlePhoto builds from the bytes it encodes
photoResponse(bytes) ==
    [StatusCode |-> 200, Headers |-> Headers,
     IsBase64Encoded |-> (variant = "main"),
     Body |-> Base64Body(EncodeToString(bytes))]

(* ------------------------------ the handler ---------------------------- *)
Init ==
    /\ variant \in Variants
    /\ method \in Methods
    /\ body \in Bodies
    /\ pc = "router"
    /\ parameters = BiteBody
    /\ client = "unset"
    /\ r = NearbySearchRequest
    /\ calls = <<>>
    /\ failed = {}
    /\ photoData = <<>>
    /\ flowResp = ZeroResponse
    /\ resp = ZeroResponse
    /\ outcome = "running"
    /\ priceIn = 0
    /\ priceOut = ""

\* a handler returns `response`; main.go's router hands it to the caller,
\* biteApi.go's router has no result and drops it
Return(response) ==
    /\ flowResp' = response
    /\ pc' = "done"
    /\ IF variant = "main"
       THEN resp' = response /\ outcome' = "returned"
       ELSE resp' = resp /\ outcome' = "returned_nothing"

\* a nil dereference: the invocation ends without a response
Panic ==
    /\ pc' = "done"
    /\ outcome' = "panicked"
    /\ UNCHANGED <<flowResp, resp>>

\* check(err) of biteApi.go with a non-nil error: log.Fatalf ends the process
Fatalf ==
    /\ pc' = "done"
    /\ outcome' = "exited"
    /\ UNCHANGED <<flowResp, resp>>

\* check(err) with a non-nil error: main.go logs and goes on, biteApi.go exits
checkFatal == variant = "biteApi"

router ==
    /\ pc = "router"
    /\ IF method = "POST"
       THEN pc' = "handleRequest" /\ UNCHANGED <<flowResp, resp, outcome>>
       ELSE Return(clientError(StatusMethodNotAllowed))
    /\ UNCHANGED <<variant, method, body, parameters, client, r, calls, failed,
                   photoData, priceIn, priceOut>>

handleRequest ==
    /\ pc = "handleRequest"
    /\ parameters' = Unmarshal(body)
    /\ LET verb == parameters'.Verb
       IN  IF verb = "create"
           THEN pc' = "handleCreate" /\ UNCHANGED <<flowResp, resp, outcome>>
           ELSE IF verb = "nextpage"
           THEN pc' = "handleNext" /\ UNCHANGED <<flowResp, resp, outcome>>
           ELSE IF verb = "photo"
           THEN pc' = "handlePhoto" /\ UNCHANGED <<flowResp, resp, outcome>>
           ELSE Return(clientError(StatusBadRequest))
    /\ UNCHANGED <<variant, method, body, client, r, calls, failed, photoData,
                   priceIn, priceOut>>

\* maps.NewClient(maps.WithAPIKey(apiKey)); check(err); then the request is
\* built: a failed construction leaves client nil and, in biteApi.go, exits
NewClient(request, nextPc) ==
    \E ok \in BOOLEAN :
        /\ client' = IF ok THEN "client" ELSE "nil"
        /\ failed' = IF ok THEN failed ELSE failed \cup {"NewClient"}
        /\ IF ~ok /\ checkFatal
           THEN Fatalf /\ r' = r
           ELSE /\ r' = request
                /\ pc' = nextPc
                /\ UNCHANGED <<flowResp, resp, outcome>>

\* handleCreate -> respondBiteArray, up to the call of client.NearbySearch
handleCreate ==
    /\ pc = "handleCreate"
    /\ NewClient(parsePriceLevels(parameters.MinPrice, parameters.MaxPrice,
                    parseLocation(parameters.Lat, parameters.Long,
                        [NearbySearchRequest EXCEPT !.Radius = parameters.Radius,
                                                    !.Type = "restaurant",
                                                    !.OpenNow = TRUE])),
                 "NearbySearch")
    /\ UNCHANGED <<variant, method, body, parameters, calls, photoData,
                   priceIn, priceOut>>

\* the request of respondNextPage with the inbound radius copied into it
nextPageRequestWithRadius(pagetoken) ==
    [NearbySearchRequest EXCEPT !.PageToken = pagetoken,
                                !.Radius = parameters.Radius]

\* r := &maps.NearbySearchRequest{PageToken: pagetoken}
nextPageRequest(pagetoken) ==
    [NearbySearchRequest EXCEPT !.PageToken = pagetoken]

\* handleNext -> respondNextPage, up to the call of client.NearbySearch;
\* only biteApi.go tests the token
handleNext ==
    /\ pc = "handleNext"
    /\ IF variant = "biteApi" /\ parameters.PageToken = ""
       THEN /\ Return(clientError(StatusBadRequest))
            /\ UNCHANGED <<client, failed, r>>
       ELSE NewClient(nextPageRequest(parameters.PageToken), "NearbySearch")
    /\ UNCHANGED <<variant, method, body, parameters, calls, photoData,
                   priceIn, priceOut>>

\* handlePhoto -> respondPhoto, up to the call of client.PlacePhoto
handlePhoto ==
    /\ pc = "handlePhoto"
    /\ IF parameters.PhotoRef = ""
       THEN /\ Return(clientError(StatusBadRequest))
            /\ UNCHANGED <<client, failed, r>>
       ELSE NewClient(PlacePhotoRequest(parameters.PhotoRef), "PlacePhoto")
    /\ UNCHANGED <<variant, method, body, parameters, calls, photoData,
                   priceIn, priceOut>>

\* client.NearbySearch(ctx, r); check(err); the response is marshalled and
\* returned with status 200.  A nil *maps.Client is dereferenced before any
\* request leaves: the call panics and nothing reaches the provider.
NearbySearch ==
    /\ pc = "NearbySearch"
    /\ IF client = "nil"
       THEN Panic /\ UNCHANGED <<calls, failed>>
       ELSE /\ calls' = Append(calls, [op |-> "NearbySearch", req |-> r])
            /\ \E ok \in BOOLEAN, page \in SearchResponses :
                  IF ok
                  THEN Return(clientSuccess(page)) /\ failed' = failed
                  ELSE /\ failed' = failed \cup {"NearbySearch"}
                       /\ IF checkFatal
                          THEN Fatalf
                          ELSE Return(clientSuccess(ZeroSearchResponse))
    /\ UNCHANGED <<variant, method, body, parameters, client, r, photoData,
                   priceIn, priceOut>>

\* client.PlacePhoto(ctx, r); check(respErr); the rest of handlePhoto.
\* main.go copies photoResponse.Data into a buffer and encodes it; after a
\* failed fetch Data is nil and buf.ReadFrom panics.  biteApi.go decodes the
\* bytes as an image, dropping the decoder's error, and encodes the image as
\* PNG; png.Encode panics on the nil image of a failed decode (no bytes at
\* all never decode).
PlacePhoto ==
    /\ pc = "PlacePhoto"
    /\ IF client = "nil"
       THEN Panic /\ UNCHANGED <<calls, failed, photoData>>
       ELSE /\ calls' = Append(calls, [op |-> "PlacePhoto", req |-> r])
            /\ \E ok \in BOOLEAN, data \in PhotoPayloads, decodes \in BOOLEAN :
                  IF ok
                  THEN /\ photoData' = data
                       /\ failed' = failed
                       /\ IF variant = "main"
                          THEN Return(photoResponse(data))
                          ELSE IF decodes /\ Len(data) > 0
                               THEN Return(photoResponse(pngEncode(data)))
                               ELSE Panic
                  ELSE /\ photoData' = photoData
                       /\ failed' = failed \cup {"PlacePhoto"}
                       /\ IF checkFatal THEN Fatalf ELSE Panic
    /\ UNCHANGED <<variant, method, body, parameters, client, r,
                   priceIn, priceOut>>

Next ==
    \/ router
    \/ handleRequest
    \/ handleCreate
    \/ handleNext
    \/ handlePhoto
    \/ NearbySearch
    \/ PlacePhoto

Spec == Init /\ [][Next]_vars

(* ------------------- the price-level mapper on its own ----------------- *)
PriceInputs == (0 - PriceMag)..PriceMag

InitPrice ==
    /\ variant \in Variants
    /\ method = "POST"
    /\ body = NonObjectBody("empty")
    /\ pc = "price"
    /\ parameters = BiteBody
    /\ client = "unset"
    /\ r = NearbySearchRequest
    /\ calls = <<>>
    /\ failed = {}
    /\ photoData = <<>>
    /\ flowResp = ZeroResponse
    /\ resp = ZeroResponse
    /\ outcome = "running"
    /\ priceIn \in PriceInputs
    /\ priceOut = ""

\* one call of parsePriceLevel(priceIn)
ApplyPriceLevel ==
    /\ pc = "price"
    /\ pc' = "priced"
    /\ priceOut' = parsePriceLevel(priceIn)
    /\ UNCHANGED <<variant, method, body, parameters, client, r, calls, failed,
                   photoData, flowResp, resp, outcome, priceIn>>

NextPrice == ApplyPriceLevel

SpecPrice == InitPrice /\ [][NextPrice]_vars

(* ============================== properties ============================= *)
Done == pc = "done"
IsPost == method = "POST"
\* the verb, page token and photo reference the body carries
VerbOf(b) == IF b.kind = "object" /\ b.verb.t = "str" THEN b.verb.s ELSE ""
TokenOf(b) == IF b.kind = "object" /\ b.pageToken.t = "str" THEN b.pageToken.s ELSE ""
RefOf(b) == IF b.kind = "object" /\ b.photoRef.t = "str" THEN b.photoRef.s ELSE ""
KnownVerbs == {"create", "nextpage", "photo"}
\* the caller received a response with this status and reason phrase
Answered(status, text) ==
    /\ outcome = "returned"
    /\ resp.StatusCode = status
    /\ resp.Body.kind = "text"
    /\ resp.Body.text = text
NoProviderCall == calls = <<>>
SearchCalls == {i \in 1..Len(calls) : calls[i].op = "NearbySearch"}

\* the inverse of base64.StdEncoding.EncodeToString
DecodeChar(c) == CHOOSE i \in 0..63 : encodeStd[i + 1] = c
RECURSIVE DecodeString(_)
DecodeString(cs) ==
    IF Len(cs) = 0 THEN <<>>
    ELSE IF Len(cs) < 4 THEN <<-1>>
    ELSE LET v1 == DecodeChar(cs[1])
             v2 == DecodeChar(cs[2])
         IN  IF cs[3] = StdPadding
             THEN <<v1 * 4 + (v2 \div 16)>>
             ELSE IF cs[4] = StdPadding
             THEN <<v1 * 4 + (v2 \div 16),
                    (v2 % 16) * 16 + (DecodeChar(cs[3]) \div 4)>>
             ELSE <<v1 * 4 + (v2 \div 16),
                    (v2 % 16) * 16 + (DecodeChar(cs[3]) \div 4),
                    (DecodeChar(cs[3]) % 4) * 64 + DecodeChar(cs[4])>>
                  \o DecodeString(SubSeq(cs, 5, Len(cs)))

\* C1: an invocation whose method is not POST, whatever its body, returns
\* status 405 with body "Method Not Allowed" and makes no provider call.
C1_NonPostReturns405 ==
    (Done /\ ~IsPost) =>
        (Answered(StatusMethodNotAllowed, "Method Not Allowed") /\ NoProviderCall)

\* C2: the response an invocation returns after an upstream operation
\* (client construction, nearby-search, photo fetch) has failed has status
\* 500 and body "Internal Server Error"; it never has status 200.
C2_UpstreamFailureReturns500 ==
    (outcome = "returned" /\ failed # {}) =>
        Answered(StatusInternalServerError, "Internal Server Error")

\* C3: every invocation of router ends by returning a response to its
\* caller: never a panic, a process exit or a return without a response.
C3_AlwaysReturnsResponse ==
    Done => outcome = "returned"

\* C4: the response to a POST with verb "nextpage" whose page token is empty
\* or absent has status 400, and no provider call was made for it.
C4_EmptyTokenReturns400 ==
    (outcome = "returned" /\ IsPost /\ VerbOf(body) = "nextpage"
                          /\ TokenOf(body) = "") =>
        (resp.StatusCode = StatusBadRequest /\ NoProviderCall)

\* C5: the response to a POST with verb "create" whose long or lat is
\* missing or not a number (every upstream operation having succeeded) has
\* status 400 and body "Bad Request", and no nearby-search was submitted.
C5_MissingCoordinateReturns400 ==
    (outcome = "returned" /\ IsPost /\ VerbOf(body) = "create"
                          /\ (body.long.t # "num" \/ body.lat.t # "num")
                          /\ failed = {}) =>
        (Answered(StatusBadRequest, "Bad Request") /\ SearchCalls = {})

\* C6: a POST whose verb is missing, empty or not one of create, nextpage,
\* photo (a body that is not valid JSON included) returns status 400 with
\* body "Bad Request" and makes no provider call.
C6_UnknownVerbReturns400 ==
    (Done /\ IsPost /\ VerbOf(body) \notin KnownVerbs) =>
        (Answered(StatusBadRequest, "Bad Request") /\ NoProviderCall)

\* C7: for a non-empty photo reference and any bytes the provider returns,
\* the response the photo flow returns has status 200, the binary flag true
\* and a body whose base64 decoding is exactly those bytes.
C7_PhotoRoundTrip ==
    (Done /\ IsPost /\ VerbOf(body) = "photo" /\ RefOf(body) # ""
          /\ Len(calls) = 1 /\ "PlacePhoto" \notin failed
          /\ flowResp # ZeroResponse) =>
        /\ flowResp.StatusCode = StatusOK
        /\ flowResp.IsBase64Encoded
        /\ flowResp.Body.kind = "base64"
        /\ DecodeString(flowResp.Body.b64) = photoData

\* the one search of a nextpage invocation carries only the token
OnlyToken(i) ==
    /\ calls[i].op = "NearbySearch"
    /\ calls[i].req.PageToken = TokenOf(body)
    /\ calls[i].req.Location = NoLocation
    /\ calls[i].req.Radius = 0
    /\ calls[i].req.Type = ""
    /\ calls[i].req.OpenNow = FALSE
    /\ calls[i].req.MinPrice = ""
    /\ calls[i].req.MaxPrice = ""
NextPageDone ==
    Done /\ IsPost /\ VerbOf(body) = "nextpage" /\ TokenOf(body) # ""

Tiers == {PriceLevelFree, PriceLevelInexpensive, PriceLevelModerate,
          PriceLevelExpensive, PriceLevelVeryExpensive}

\* C9: parsePriceLevel(p) is one of the five tiers for every integer p: 0 is
\* free, 1 inexpensive, 2 moderate, 3 expensive, 4 very expensive, and every
\* p below 0 or above 4 is free.
C9_PriceLevelMapping ==
    pc = "priced" =>
        /\ priceOut \in Tiers
        /\ priceIn = 0 => priceOut = PriceLevelFree
        /\ priceIn = 1 => priceOut = PriceLevelInexpensive
        /\ priceIn = 2 => priceOut = PriceLevelModerate
        /\ priceIn = 3 => priceOut = PriceLevelExpensive
        /\ priceIn = 4 => priceOut = PriceLevelVeryExpensive
        /\ (priceIn < 0 \/ priceIn > 4) => priceOut = PriceLevelFree

\* the mapper has been applied to a price above the range
C9_Witness == pc = "priced" /\ priceIn > 4 /\ priceOut = PriceLevelFree

\* C10: the search the create flow submits has its max-price bound equal to
\* the mapper applied to maxPrice, whatever minPrice is (stated for prices
\* of 0..4, where a bound is always set and names the tier of its price).
C10_MaxPriceFromMaxPrice ==
    (IsPost /\ VerbOf(body) = "create"
            /\ parameters.MinPrice \in 0..4 /\ parameters.MaxPrice \in 0..4) =>
        \A i \in SearchCalls :
            calls[i].req.MaxPrice = parsePriceLevel(parameters.MaxPrice)

====
